---------------------------- MODULE Spec2Model ----------------------------
(***************************************************************************)
(* Model of the portfolio site's client-side state machines.               *)
(*                                                                         *)
(* Two implementations live in the repository and are modelled side by     *)
(* side: the React components (Contact in Hero.tsx, Header.tsx, the        *)
(* Experience component) and the plain script personal.js.  The variable   *)
(* impl says which of the two is running in the page; the two never run    *)
(* together and share no state.                                            *)
(*                                                                         *)
(* Text values are sequences of one-character strings, so that trim() and  *)
(* the regular expressions are computed character by character.            *)
(***************************************************************************)
EXTENDS Naturals, Sequences, FiniteSets

VARIABLES
    impl,           \* "react" | "js": which implementation the page runs
    lastEvent,      \* [op, arg, branch]: the handler that ran last, its
                    \* target and the branch it took
    \* ---- email validators run on their own (pure functions)
    emailIn,        \* the string handed to the validators
    reactVerdict,   \* "unchecked" | "valid" | "invalid"
    jsVerdict,      \* "unchecked" | "valid" | "invalid"
    \* ---- React Contact (Hero.tsx:51-180)
    formData,       \* [name, email, message]
    errors,         \* [name, email, message] -> message or Undefined
    isSubmitting,   \* BOOLEAN
    submitStatus,   \* "success" | "error" | Null
    submissions,    \* number of simulated submissions in flight
    \* ---- personal.js contact form (personal.js:75-184)
    jsValue,        \* [name, email, subject, message] -> input value
    jsError,        \* [name, email, subject, message] -> 'error' class shown
    btnText,        \* "original" | "Sending..." | "Sent!"
    btnDisabled,    \* submitBtn.disabled
    btnSuccess,     \* submitBtn has class 'success'
    jsTimer,        \* "none" | "submit" (1500 ms) | "reset" (2000 ms)
    \* ---- the window and personal.js page state (personal.js:1-35, 186-207)
    scrollY,        \* window.scrollY
    headerScrolled, \* header has class 'scrolled'
    navLinksActive, \* .nav-links has class 'active'
    hamburgerActive,\* the .hamburger lines have class 'active'
    darkMode,       \* body has class 'dark-mode'
    themeIcon,      \* themeToggle.textContent: "sun" | "moon"
    storedTheme,    \* localStorage 'theme': "dark" | "light" | Absent
    prefersDark,    \* matchMedia('(prefers-color-scheme: dark)').matches
    \* ---- React Header (Header.tsx)
    isScrolled,
    isMobileMenuOpen,
    \* ---- reveal observers (personal.js:58-73, 282-295; Experience)
    timelineVisible,    \* timeline item -> has class 'visible'
    timelineObserved,   \* timeline item -> still observed
    sectionRevealed,    \* section -> has class 'revealed'
    sectionObserved,    \* section -> still observed
    expVisible,         \* Experience timeline item -> has class 'visible'
    expObserving,       \* the Experience observer is connected
    lastEntries,        \* the entries of the last observer callback:
                        \* a set of <<target, isIntersecting>>
    \* ---- skill bars (Skills.tsx; personal.js:37-56)
    barWidth,           \* Skills: style.width of each .skill-progress, in %
    skillsObserving,    \* the Skills observer is connected
    expandedSkill,      \* Skills state: a skill index or NoSkill
    skillWidth,         \* personal.js: style.width of each .skill-progress
    skillTarget,        \* personal.js: data-width of each .skill-progress
    skillObserved,      \* personal.js: #skills is observed by skillObserver
    \* ---- project gallery (Projects.tsx; personal.js:228-280)
    selectedProject,    \* Projects state: a project title or Null
    isModalOpen,        \* Projects state
    jsModals,           \* the .project-modal elements in body, oldest
                        \* first, each the card it was made for
    clickedCards,       \* the cards that have class 'clicked'
    \* ---- typing effect (Hero.tsx:5-19; personal.js:209-226)
    text,               \* Hero state
    currentIndex,       \* Hero state
    heroTimer,          \* the 100 ms timeout of the Hero effect is pending
    originalText,       \* personal.js: the heading's text at load
    innerHTML,          \* personal.js: the heading's content, one item
                        \* for each character or element
    typeI,              \* personal.js: i, the index typeWriter is at
    typeTimer,          \* a typeWriter timeout is pending
    \* ---- component lifetime
    mounted,            \* which React components are mounted
    headerListening     \* the Header's scroll listener is registered

emailVars == <<emailIn, reactVerdict, jsVerdict>>
contactVars == <<formData, errors, isSubmitting, submitStatus, submissions>>
jsFormVars == <<jsValue, jsError, btnText, btnDisabled, btnSuccess, jsTimer>>
jsPageVars == <<headerScrolled, navLinksActive, hamburgerActive, darkMode,
                themeIcon, storedTheme, prefersDark>>
headerVars == <<isScrolled, isMobileMenuOpen>>
pageVars == <<scrollY, jsPageVars, headerVars>>
skillsVars == <<barWidth, skillsObserving, expandedSkill, skillWidth,
                skillTarget, skillObserved>>
revealVars == <<timelineVisible, timelineObserved, sectionRevealed,
                sectionObserved, expVisible, expObserving, lastEntries,
                skillsVars>>
galleryVars == <<selectedProject, isModalOpen, jsModals, clickedCards>>
typingVars == <<text, currentIndex, heroTimer, originalText, innerHTML,
                typeI, typeTimer>>
lifeVars == <<mounted, headerListening>>
vars == <<impl, lastEvent, emailVars, contactVars, jsFormVars, pageVars,
          revealVars,
          galleryVars,
          typingVars,
          lifeVars>>

\* what the handlers of one component leave alone
exceptEmail == <<contactVars, jsFormVars, pageVars, revealVars, galleryVars,
                typingVars, lifeVars>>
exceptContact == <<emailVars, jsFormVars, pageVars, revealVars, galleryVars,
                typingVars, lifeVars>>
exceptJsForm == <<emailVars, contactVars, pageVars, revealVars, galleryVars,
                typingVars, lifeVars>>
exceptJsPage == <<emailVars, contactVars, jsFormVars, headerVars, revealVars,
                galleryVars, typingVars, lifeVars>>
exceptHeader == <<emailVars, contactVars, jsFormVars, jsPageVars, revealVars,
                galleryVars, typingVars, lifeVars>>
exceptReveal == <<emailVars, contactVars, jsFormVars, pageVars, galleryVars,
                typingVars, lifeVars>>
exceptTyping == <<emailVars, contactVars, jsFormVars, pageVars, revealVars,
                 galleryVars, lifeVars>>
exceptGallery == <<emailVars, contactVars, jsFormVars, pageVars, revealVars,
                typingVars, lifeVars>>

---------------------------------------------------------------------------
(* Bounds of the model *)

\* longest generated string handed to the email validators on their own
MaxEmailLen == 5
\* longest generated value of a name / subject / message field
MaxFieldLen == 1
\* furthest scroll position, in pixels
MaxScrollY == 52
\* .timeline-item elements in the page personal.js runs in
NumTimelineItems == 2
\* section elements in the page personal.js runs in
NumSections == 2
\* .skill-progress elements in the page personal.js runs in
NumSkillBars == 2
\* longest heading text of the page personal.js runs in
MaxTextLen == 3
\* .project-card elements in the page personal.js runs in
NumProjectCards == 2
\* most .project-modal elements the model lets personal.js pile up
MaxModals == 3

---------------------------------------------------------------------------
(* Text *)

Whitespace == {" "}
TextAlphabet == {"a", " "}
EmailAlphabet == {"a", "@", ".", " "}

Strings(A, n) == UNION {[1..k -> A] : k \in 0..n}

Foo == <<"f", "o", "o">>
FooAtBarCom == <<"f", "o", "o", "@", "b", "a", "r", ".", "c", "o", "m">>
AAtBCom == <<"a", "@", "b", ".", "c", "o", "m">>
NameA == <<"A">>
MessageHi == <<"h", "i">>

\* String.prototype.trim
RECURSIVE TrimLeft(_)
TrimLeft(s) ==
    IF s # <<>> /\ Head(s) \in Whitespace THEN TrimLeft(Tail(s)) ELSE s

RECURSIVE TrimRight(_)
TrimRight(s) ==
    IF s # <<>> /\ s[Len(s)] \in Whitespace
    THEN TrimRight(SubSeq(s, 1, Len(s) - 1))
    ELSE s

Trim(s) == TrimRight(TrimLeft(s))

\* \S
NonSpace(c) == c \notin Whitespace
\* [^\s@]
NonSpaceNonAt(c) == c \notin Whitespace /\ c # "@"

\* mutant: the pattern without its "." part, /\S+@\S+/
ReactEmailRegexTest_NoDot(s) ==
    \E at \in 1..Len(s) :
        /\ s[at] = "@"
        /\ at >= 2 /\ NonSpace(s[at - 1])
        /\ at < Len(s) /\ NonSpace(s[at + 1])

\* /\S+@\S+\.\S+/.test(s): some substring is \S+ "@" \S+ "." \S+
ReactEmailRegexTest(s) ==
    \E at, dot \in 1..Len(s) :
        /\ s[at] = "@"
        /\ s[dot] = "."
        /\ at >= 2 /\ NonSpace(s[at - 1])
        /\ dot >= at + 2
        /\ \A k \in (at + 1)..(dot - 1) : NonSpace(s[k])
        /\ dot < Len(s) /\ NonSpace(s[dot + 1])

\* mutant: the pattern without its "." part, /^[^\s@]+@[^\s@]+$/
JsEmailRegexTest_NoDot(s) ==
    \E at \in 1..Len(s) :
        /\ s[at] = "@"
        /\ at >= 2 /\ at < Len(s)
        /\ \A k \in (1..Len(s)) \ {at} : NonSpaceNonAt(s[k])

\* /^[^\s@]+@[^\s@]+\.[^\s@]+$/.test(s): the whole string is X+ "@" X+ "." X+
JsEmailRegexTest(s) ==
    \E at, dot \in 1..Len(s) :
        /\ s[at] = "@"
        /\ s[dot] = "."
        /\ at >= 2
        /\ \A k \in 1..(at - 1) : NonSpaceNonAt(s[k])
        /\ dot >= at + 2
        /\ \A k \in (at + 1)..(dot - 1) : NonSpaceNonAt(s[k])
        /\ dot < Len(s)
        /\ \A k \in (dot + 1)..Len(s) : NonSpaceNonAt(s[k])

---------------------------------------------------------------------------
(* React Contact: validation rules *)

Undefined == "undefined"
Null == "null"

\* mutant: the required check without trim(), !formData.name
ReactNameError_NoTrim(name) ==
    IF name = <<>> THEN "Name is required" ELSE Undefined

ReactNameError(name) ==
    IF Trim(name) = <<>> THEN "Name is required" ELSE Undefined

ReactEmailError(email) ==
    IF Trim(email) = <<>> THEN "Email is required"
    ELSE IF ~ReactEmailRegexTest(email) THEN "Email is invalid"
    ELSE Undefined

ReactMessageError(message) ==
    IF Trim(message) = <<>> THEN "Message is required" ELSE Undefined

\* mutant: validateForm without its check of the message
validateForm_NoMessage(fd) ==
    [name |-> ReactNameError(fd.name),
     email |-> ReactEmailError(fd.email),
     message |-> Undefined]

\* the newErrors object validateForm builds
validateForm(fd) ==
    [name |-> ReactNameError(fd.name),
     email |-> ReactEmailError(fd.email),
     message |-> ReactMessageError(fd.message)]

NoErrors == [name |-> Undefined, email |-> Undefined, message |-> Undefined]

\* Object.keys(newErrors).length === 0
ReactFormValid(fd) == validateForm(fd) = NoErrors

(* personal.js: validation rules *)

JsFields == {"name", "email", "subject", "message"}

\* the condition under which a listener adds the 'error' class to field f
JsFieldInvalid(f, v) ==
    IF f = "email" THEN ~JsEmailRegexTest(v) ELSE Trim(v) = <<>>

\* isValid at the end of the submit listener's checks
JsFormValid(val) == \A f \in JsFields : ~JsFieldInvalid(f, val[f])

---------------------------------------------------------------------------
(* Inputs *)

EmailInputs == Strings(EmailAlphabet, MaxEmailLen) \cup {Foo, FooAtBarCom}

NameInputs == Strings(TextAlphabet, MaxFieldLen) \cup {NameA}
MessageInputs == Strings(TextAlphabet, MaxFieldLen) \cup {MessageHi}
SubjectInputs == Strings(TextAlphabet, MaxFieldLen)
\* the email field of the forms takes representative values: empty, blank,
\* no "@", no "." after the "@", and a well-formed address
AAtB == <<"a", "@", "b">>
FormEmailInputs == {<<>>, <<" ">>, Foo, AAtB, AAtBCom}

ReactFields == {"name", "email", "message"}

FieldInputs(f) ==
    CASE f = "name" -> NameInputs
      [] f = "email" -> FormEmailInputs
      [] f = "subject" -> SubjectInputs
      [] f = "message" -> MessageInputs

Event(op, arg, branch) == [op |-> op, arg |-> arg, branch |-> branch]

---------------------------------------------------------------------------
(* Initial values of each component *)

EmailIdle ==
    /\ emailIn = <<>>
    /\ reactVerdict = "unchecked"
    /\ jsVerdict = "unchecked"

ContactInit ==
    /\ formData = [name |-> <<>>, email |-> <<>>, message |-> <<>>]
    /\ errors = NoErrors
    /\ isSubmitting = FALSE
    /\ submitStatus = Null
    /\ submissions = 0

JsFormInit ==
    /\ jsValue = [f \in JsFields |-> <<>>]
    /\ jsError = [f \in JsFields |-> FALSE]
    /\ btnText = "original"
    /\ btnDisabled = FALSE
    /\ btnSuccess = FALSE
    /\ jsTimer = "none"

Absent == "absent"

\* the page before any script has touched it
PageIdle ==
    /\ scrollY = 0
    /\ headerScrolled = FALSE
    /\ navLinksActive = FALSE
    /\ hamburgerActive = FALSE
    /\ darkMode = FALSE
    /\ themeIcon = "moon"
    /\ storedTheme = Absent
    /\ prefersDark = FALSE
    /\ isScrolled = FALSE
    /\ isMobileMenuOpen = FALSE

TimelineItems == 1..NumTimelineItems
Sections == 1..NumSections

RevealInit ==
    /\ timelineVisible = [e \in TimelineItems |-> FALSE]
    /\ timelineObserved = [e \in TimelineItems |-> TRUE]
    /\ sectionRevealed = [e \in Sections |-> FALSE]
    /\ sectionObserved = [e \in Sections |-> TRUE]
    /\ lastEntries = {}

\* the experiences array has three entries, one .timeline-item each
NumExperiences == 3
ExperienceItems == 1..NumExperiences

ExperienceInit ==
    /\ expVisible = [e \in ExperienceItems |-> FALSE]
    /\ expObserving = TRUE

\* the level of each entry of the skills array
SkillLevels == <<90, 85, 95, 80>>
Skills == 1..Len(SkillLevels)
\* expandedSkill is null
NoSkill == 0

SkillBars == 1..NumSkillBars
\* the data-width values a .skill-progress element may declare
SkillTargets == {60, 100}
\* the one element the skills observers are handed
SkillsContainer == {1}

\* every bar starts at 0%: style={{ width: '0%' }} in Skills, and the bars of
\* the page personal.js runs in are taken to start the same way
SkillsMounted ==
    /\ barWidth = [s \in Skills |-> 0]
    /\ skillsObserving = TRUE
    /\ expandedSkill = NoSkill
    /\ skillWidth = [b \in SkillBars |-> 0]
    /\ skillObserved = TRUE

SkillsInit ==
    /\ SkillsMounted
    /\ skillTarget \in [SkillBars -> SkillTargets]

\* the skills as the specifications of the other components hold them
SkillsIdle ==
    /\ SkillsMounted
    /\ skillTarget = [b \in SkillBars |-> 100]

\* the titles of the projects array
ProjectTitles ==
    {"Personal Portfolio", "E-commerce Platform", "ML Image Classifier"}

ProjectCards == 1..NumProjectCards

GalleryInit ==
    /\ selectedProject = Null
    /\ isModalOpen = FALSE
    /\ jsModals = <<>>
    /\ clickedCards = {}

\* fullText, one character an item
FullText ==
    <<"I", "'", "m", " ", "Z", "h", "e", "y", "u", "a", "n", " ", "L",
      "i", "n", ",", " ", "a", " ", "C", "o", "m", "p", "u", "t", "e",
      "r", " ", "S", "c", "i", "e", "n", "c", "e", " ", "S", "t", "u",
      "d", "e", "n", "t">>

\* the element typeWriter appends when the text is typed
CursorSpan == "<span class=\"cursor\">|</span>"

TypingAlphabet == {"a", "b"}
\* the texts the heading may hold at load (text only, no markup)
HeadingTexts == Strings(TypingAlphabet, MaxTextLen)

TypingMounted ==
    /\ text = <<>>
    /\ currentIndex = 0
    /\ heroTimer = TRUE
    /\ innerHTML = <<>>
    /\ typeI = 0
    /\ typeTimer = TRUE

TypingInit ==
    /\ TypingMounted
    /\ originalText \in HeadingTexts

\* the typing effect as the specifications of the other components hold it
TypingIdle ==
    /\ TypingMounted
    /\ originalText = <<"a">>

Components == {"Header", "Hero", "Skills", "Experience", "Contact"}

LifeInit ==
    /\ mounted = [c \in Components |-> TRUE]
    /\ headerListening = TRUE

---------------------------------------------------------------------------
(* The email validators on their own *)

Verdict(ok) == IF ok THEN "valid" ELSE "invalid"

ReactValidateEmail ==
    /\ reactVerdict = "unchecked"
    /\ reactVerdict' = Verdict(ReactEmailError(emailIn) = Undefined)
    /\ lastEvent' = Event("validateForm", "email", "")
    /\ UNCHANGED <<impl, emailIn, jsVerdict>>
    /\ UNCHANGED exceptEmail

JsValidateEmail ==
    /\ jsVerdict = "unchecked"
    /\ jsVerdict' = Verdict(~JsFieldInvalid("email", emailIn))
    /\ lastEvent' = Event("submitListener", "email", "")
    /\ UNCHANGED <<impl, emailIn, reactVerdict>>
    /\ UNCHANGED exceptEmail

InitEmail ==
    /\ impl = "react"
    /\ lastEvent = Event("load", "", "")
    /\ emailIn \in EmailInputs
    /\ reactVerdict = "unchecked"
    /\ jsVerdict = "unchecked"
    /\ ContactInit
    /\ JsFormInit
    /\ PageIdle
    /\ RevealInit
    /\ SkillsIdle
    /\ ExperienceInit
    /\ GalleryInit
    /\ TypingIdle
    /\ LifeInit

NextEmail == ReactValidateEmail \/ JsValidateEmail

SpecEmail == InitEmail /\ [][NextEmail]_vars

\* a string has an "@" with a "." somewhere after it
HasAtThenDot(s) ==
    \E i, j \in 1..Len(s) : i < j /\ s[i] = "@" /\ s[j] = "."

\* C2: every string that lacks "@" or lacks a "." after the "@" is rejected by
\* both submit-time email validators; "foo" is rejected and "foo@bar.com" is
\* accepted by both.
C2_EmailRejectsWithoutAtDot ==
    /\ (reactVerdict # "unchecked" /\ ~HasAtThenDot(emailIn))
            => reactVerdict = "invalid"
    /\ (jsVerdict # "unchecked" /\ ~HasAtThenDot(emailIn))
            => jsVerdict = "invalid"
    /\ (reactVerdict # "unchecked" /\ emailIn = FooAtBarCom)
            => reactVerdict = "valid"
    /\ (jsVerdict # "unchecked" /\ emailIn = FooAtBarCom)
            => jsVerdict = "valid"

C2_Witness ==
    /\ emailIn = <<"a", ".", "a", "@", "a">>
    /\ reactVerdict = "invalid"
    /\ jsVerdict = "invalid"

---------------------------------------------------------------------------
(* React Contact (Hero.tsx:51-180) *)

\* mutant: handleChange without the clearing of the field's error
HandleChange_KeepsError(f, v) ==
    /\ impl = "react"
    /\ mounted["Contact"]
    /\ formData' = [formData EXCEPT ![f] = v]
    /\ lastEvent' = Event("handleChange", f,
                         IF errors[f] # Undefined THEN "clearError"
                         ELSE "noError")
    /\ UNCHANGED <<impl, errors, isSubmitting, submitStatus, submissions>>
    /\ UNCHANGED exceptContact

\* handleChange: an input or textarea fires onChange with its new value
HandleChange(f, v) ==
    /\ impl = "react"
    /\ mounted["Contact"]
    /\ formData' = [formData EXCEPT ![f] = v]
    /\ errors' = IF errors[f] # Undefined
                 THEN [errors EXCEPT ![f] = Undefined]
                 ELSE errors
    /\ lastEvent' = Event("handleChange", f,
                         IF errors[f] # Undefined THEN "clearError"
                         ELSE "noError")
    /\ UNCHANGED <<impl, isSubmitting, submitStatus, submissions>>
    /\ UNCHANGED exceptContact

\* mutant: a submit button that is never disabled
HandleSubmit_AlwaysEnabled ==
    /\ impl = "react"
    /\ mounted["Contact"]
    /\ errors' = validateForm(formData)
    /\ IF ReactFormValid(formData)
       THEN /\ isSubmitting' = TRUE
            /\ submitStatus' = Null
            /\ submissions' = submissions + 1
       ELSE UNCHANGED <<isSubmitting, submitStatus, submissions>>
    /\ lastEvent' = Event("handleSubmit", "",
                         IF ReactFormValid(formData) THEN "valid"
                         ELSE "invalid")
    /\ UNCHANGED <<impl, formData>>
    /\ UNCHANGED exceptContact

\* mutant: setSubmitStatus(null) ahead of the validation
HandleSubmit_ClearsStatus ==
    /\ impl = "react"
    /\ mounted["Contact"]
    /\ ~isSubmitting
    /\ errors' = validateForm(formData)
    /\ submitStatus' = Null
    /\ IF ReactFormValid(formData)
       THEN /\ isSubmitting' = TRUE
            /\ submissions' = submissions + 1
       ELSE UNCHANGED <<isSubmitting, submissions>>
    /\ lastEvent' = Event("handleSubmit", "",
                         IF ReactFormValid(formData) THEN "valid"
                         ELSE "invalid")
    /\ UNCHANGED <<impl, formData>>
    /\ UNCHANGED exceptContact

\* handleSubmit up to the await.  The submit button is disabled while
\* isSubmitting (Hero.tsx:166), so no submit event reaches the form then.
HandleSubmit ==
    /\ impl = "react"
    /\ mounted["Contact"]
    /\ ~isSubmitting
    /\ errors' = validateForm(formData)
    /\ IF ReactFormValid(formData)
       THEN /\ isSubmitting' = TRUE
            /\ submitStatus' = Null
            /\ submissions' = submissions + 1
       ELSE UNCHANGED <<isSubmitting, submitStatus, submissions>>
    /\ lastEvent' = Event("handleSubmit", "",
                         IF ReactFormValid(formData) THEN "valid"
                         ELSE "invalid")
    /\ UNCHANGED <<impl, formData>>
    /\ UNCHANGED exceptContact

\* mutant: the success path without setFormData
SubmitResolved_KeepsFields ==
    /\ impl = "react"
    /\ mounted["Contact"]
    /\ submissions > 0
    /\ submissions' = submissions - 1
    /\ submitStatus' = "success"
    /\ isSubmitting' = FALSE
    /\ lastEvent' = Event("resolved", "", "")
    /\ UNCHANGED <<impl, formData, errors>>
    /\ UNCHANGED exceptContact

\* the awaited promise resolves: the rest of the try block, then finally
SubmitResolved ==
    /\ impl = "react"
    /\ mounted["Contact"]
    /\ submissions > 0
    /\ submissions' = submissions - 1
    /\ submitStatus' = "success"
    /\ formData' = [name |-> <<>>, email |-> <<>>, message |-> <<>>]
    /\ isSubmitting' = FALSE
    /\ lastEvent' = Event("resolved", "", "")
    /\ UNCHANGED <<impl, errors>>
    /\ UNCHANGED exceptContact

\* mutant: the failure path clearing the fields as the success path does
SubmitRejected_ClearsFields ==
    /\ impl = "react"
    /\ mounted["Contact"]
    /\ submissions > 0
    /\ submissions' = submissions - 1
    /\ submitStatus' = "error"
    /\ formData' = [name |-> <<>>, email |-> <<>>, message |-> <<>>]
    /\ isSubmitting' = FALSE
    /\ lastEvent' = Event("rejected", "", "")
    /\ UNCHANGED <<impl, errors>>
    /\ UNCHANGED exceptContact

\* the awaited submission rejects: the catch block, then finally.  The stub
\* at Hero.tsx:111 is the place a real transport is put; this is the path a
\* failing transport takes.
SubmitRejected ==
    /\ impl = "react"
    /\ mounted["Contact"]
    /\ submissions > 0
    /\ submissions' = submissions - 1
    /\ submitStatus' = "error"
    /\ isSubmitting' = FALSE
    /\ lastEvent' = Event("rejected", "", "")
    /\ UNCHANGED <<impl, formData, errors>>
    /\ UNCHANGED exceptContact

\* Contact is unmounted.  The component has no effect and no cleanup: a
\* submission that is awaited stays awaited.
ContactUnmount ==
    /\ impl = "react"
    /\ mounted["Contact"]
    /\ mounted' = [mounted EXCEPT !["Contact"] = FALSE]
    /\ lastEvent' = Event("unmount", "Contact",
                         IF submissions > 0 THEN "pending" ELSE "idle")
    /\ UNCHANGED <<impl, contactVars, headerListening>>
    /\ UNCHANGED <<emailVars, jsFormVars, pageVars, revealVars, galleryVars,
                   typingVars>>

\* the awaited promise settles after Contact was unmounted: the rest of
\* handleSubmit runs and calls the setters, and React drops the updates of
\* a component that is no longer mounted
SubmitSettledUnmounted ==
    /\ impl = "react"
    /\ ~mounted["Contact"]
    /\ submissions > 0
    /\ submissions' = submissions - 1
    /\ lastEvent' = Event("settledUnmounted", "", "")
    /\ UNCHANGED <<impl, formData, errors, isSubmitting, submitStatus>>
    /\ UNCHANGED exceptContact

\* what the Contact component renders as the state of the form
ReactPhase ==
    IF isSubmitting THEN "submitting"
    ELSE IF submitStatus = "success" THEN "success"
    ELSE IF submitStatus = "error" THEN "error"
    ELSE "idle"

---------------------------------------------------------------------------
(* personal.js contact form (personal.js:75-184) *)

\* mutant: a listener that only ever removes the error
JsInput_RemoveOnly(f, v) ==
    /\ impl = "js"
    /\ jsValue' = [jsValue EXCEPT ![f] = v]
    /\ jsError' = [jsError EXCEPT ![f] = jsError[f] /\ JsFieldInvalid(f, v)]
    /\ lastEvent' = Event("input", f,
                         IF JsFieldInvalid(f, v) THEN "addError"
                         ELSE "removeError")
    /\ UNCHANGED <<impl, btnText, btnDisabled, btnSuccess, jsTimer>>
    /\ UNCHANGED exceptJsForm

\* the 'input' listener of field f
JsInput(f, v) ==
    /\ impl = "js"
    /\ jsValue' = [jsValue EXCEPT ![f] = v]
    /\ jsError' = [jsError EXCEPT ![f] = JsFieldInvalid(f, v)]
    /\ lastEvent' = Event("input", f,
                         IF JsFieldInvalid(f, v) THEN "addError"
                         ELSE "removeError")
    /\ UNCHANGED <<impl, btnText, btnDisabled, btnSuccess, jsTimer>>
    /\ UNCHANGED exceptJsForm

\* the 'submit' listener.  submitBtn.disabled is set from a valid submit
\* until the reset, so no submit event reaches the form in between.
JsSubmit ==
    /\ impl = "js"
    /\ ~btnDisabled
    /\ jsError' = [f \in JsFields |->
                      jsError[f] \/ JsFieldInvalid(f, jsValue[f])]
    /\ IF JsFormValid(jsValue)
       THEN /\ btnText' = "Sending..."
            /\ btnDisabled' = TRUE
            /\ jsTimer' = "submit"
       ELSE UNCHANGED <<btnText, btnDisabled, jsTimer>>
    /\ lastEvent' = Event("submit", "",
                         IF JsFormValid(jsValue) THEN "valid"
                         ELSE "invalid")
    /\ UNCHANGED <<impl, jsValue, btnSuccess>>
    /\ UNCHANGED exceptJsForm

\* the 1500 ms timer: the simulated submission is over
JsSubmitTimeout ==
    /\ impl = "js"
    /\ jsTimer = "submit"
    /\ btnText' = "Sent!"
    /\ btnSuccess' = TRUE
    /\ jsTimer' = "reset"
    /\ lastEvent' = Event("sent", "", "")
    /\ UNCHANGED <<impl, jsValue, jsError, btnDisabled>>
    /\ UNCHANGED exceptJsForm

\* the 2000 ms timer: form.reset() and the button back to its first state
JsResetTimeout ==
    /\ impl = "js"
    /\ jsTimer = "reset"
    /\ jsValue' = [f \in JsFields |-> <<>>]
    /\ btnText' = "original"
    /\ btnSuccess' = FALSE
    /\ btnDisabled' = FALSE
    /\ jsTimer' = "none"
    /\ lastEvent' = Event("reset", "", "")
    /\ UNCHANGED <<impl, jsError>>
    /\ UNCHANGED exceptJsForm

\* what the submit button shows as the state of the form
JsPhase ==
    IF btnText = "Sending..." THEN "submitting"
    ELSE IF btnText = "Sent!" THEN "success"
    ELSE "idle"

---------------------------------------------------------------------------
(* The contact form, in either implementation *)

InitForm ==
    /\ impl \in {"react", "js"}
    /\ lastEvent = Event("load", "", "")
    /\ EmailIdle
    /\ ContactInit
    /\ JsFormInit
    /\ PageIdle
    /\ RevealInit
    /\ SkillsIdle
    /\ ExperienceInit
    /\ GalleryInit
    /\ TypingIdle
    /\ LifeInit

NextForm ==
    \/ \E f \in ReactFields : \E v \in FieldInputs(f) : HandleChange(f, v)
    \/ HandleSubmit
    \/ SubmitResolved
    \/ \E f \in JsFields : \E v \in FieldInputs(f) : JsInput(f, v)
    \/ JsSubmit
    \/ JsSubmitTimeout
    \/ JsResetTimeout

\* the reference behaviour: the stubbed submission always resolves
SpecForm == InitForm /\ [][NextForm]_vars

\* the same form behind a transport that can fail
NextFormFailing == NextForm \/ SubmitRejected

SpecFormFailing == InitForm /\ [][NextFormFailing]_vars

\* the same form in a page that can unmount it
NextFormTeardown ==
    \/ NextForm
    \/ ContactUnmount
    \/ SubmitSettledUnmounted

SpecFormTeardown == InitForm /\ [][NextFormTeardown]_vars

Phase == IF impl = "react" THEN ReactPhase ELSE JsPhase

---------------------------------------------------------------------------
(* Properties of the contact form *)

\* empty or whitespace-only
Blank(s) == Trim(s) = <<>>

AllFieldsEmpty ==
    IF impl = "react"
    THEN formData = [name |-> <<>>, email |-> <<>>, message |-> <<>>]
    ELSE \A f \in ReactFields : jsValue[f] = <<>>

\* C1: a submit event on a form whose name or message is empty or
\* whitespace-only starts no submission (the form does not enter the
\* submitting state, nothing is put in flight) and leaves an error shown on
\* each of these two fields that is blank.
C1_BlankBlocksSubmit ==
    [][ /\ ( /\ lastEvent'.op = "handleSubmit"
             /\ (Blank(formData.name) \/ Blank(formData.message)) )
           => /\ ~isSubmitting'
              /\ submissions' = submissions
              /\ ReactPhase' # "submitting"
              /\ Blank(formData'.name) => errors'.name # Undefined
              /\ Blank(formData'.message) => errors'.message # Undefined
        /\ ( /\ lastEvent'.op = "submit"
             /\ (Blank(jsValue.name) \/ Blank(jsValue.message)) )
           => /\ jsTimer' = jsTimer
              /\ ~btnDisabled'
              /\ JsPhase' # "submitting"
              /\ Blank(jsValue'.name) => jsError'.name
              /\ Blank(jsValue'.message) => jsError'.message
      ]_vars

C1_Witness ==
    /\ lastEvent.op = "handleSubmit"
    /\ formData.name = <<" ">>
    /\ formData.email = AAtBCom
    /\ formData.message = MessageHi
    /\ errors.name # Undefined
    /\ ~isSubmitting
    /\ submissions = 0

\* C3 as stated: a submit with name, email and message valid puts the form
\* in the submitting state, success is entered from submitting only, and
\* when success is entered the three fields are empty.
C3_Original ==
    [][ /\ ( /\ lastEvent'.op = "handleSubmit"
             /\ \A f \in ReactFields : validateForm(formData)[f] = Undefined )
           => ReactPhase' = "submitting"
        /\ ( /\ lastEvent'.op = "submit"
             /\ \A f \in ReactFields : ~JsFieldInvalid(f, jsValue[f]) )
           => JsPhase' = "submitting"
        /\ (Phase # "success" /\ Phase' = "success")
           => (Phase = "submitting" /\ AllFieldsEmpty')
      ]_vars

\* C3 (amended): a submit with every field valid (in personal.js the subject
\* too) puts the form in the submitting state; submitting is left for
\* success only, success is entered from submitting only, and the success
\* message is shown then.  The fields are empty when success is entered in
\* the React Contact component, and in personal.js when the success display
\* ends (form.reset() in the 2000 ms timer).
C3_ValidSubmitReachesSuccess ==
    [][ /\ ( /\ lastEvent'.op = "handleSubmit"
             /\ \A f \in ReactFields : validateForm(formData)[f] = Undefined )
           => ReactPhase' = "submitting"
        /\ ( /\ lastEvent'.op = "submit"
             /\ \A f \in JsFields : ~JsFieldInvalid(f, jsValue[f]) )
           => JsPhase' = "submitting"
        /\ (Phase = "submitting" /\ Phase' # "submitting")
           => Phase' = "success"
        /\ (Phase # "success" /\ Phase' = "success")
           => /\ Phase = "submitting"
              /\ impl = "react" => (submitStatus' = "success" /\ AllFieldsEmpty')
              /\ impl = "js" => (btnText' = "Sent!" /\ btnSuccess')
        /\ (impl = "js" /\ Phase = "success" /\ Phase' # "success")
           => (Phase' = "idle" /\ AllFieldsEmpty')
      ]_vars

C3_Witness ==
    /\ impl = "react"
    /\ lastEvent.op = "resolved"
    /\ submitStatus = "success"
    /\ ~isSubmitting
    /\ AllFieldsEmpty

\* C4: when the submission in flight fails, the form goes from submitting
\* to error: the error message is shown, isSubmitting is false again and
\* name, email and message keep the values they had at the failure.
C4_FailureKeepsFields ==
    [][ lastEvent'.op = "rejected"
           => /\ ReactPhase = "submitting"
              /\ ReactPhase' = "error"
              /\ submitStatus' = "error"
              /\ ~isSubmitting'
              /\ formData' = formData
      ]_vars

C4_Witness ==
    /\ lastEvent.op = "rejected"
    /\ submitStatus = "error"
    /\ ~isSubmitting
    /\ formData = [name |-> NameA, email |-> AAtBCom, message |-> MessageHi]

\* C5: once the form shows success or error, an edit of a field takes it
\* back to idle, or a display timer is running that will.
C5_OutcomeReturnsToIdle ==
    [][ ( /\ Phase \in {"success", "error"}
          /\ lastEvent'.op \in {"handleChange", "input"} )
           => (Phase' = "idle" \/ jsTimer' = "reset")
      ]_vars

\* C6 as stated: an edit of a field that has an error to a non-empty value
\* (for email, one that matches the pattern) clears the field's error.
C6_Original ==
    [][ /\ \A f \in ReactFields :
              ( /\ lastEvent'.op = "handleChange" /\ lastEvent'.arg = f
                /\ errors[f] # Undefined
                /\ formData'[f] # <<>>
                /\ f = "email" => ReactEmailRegexTest(formData'[f]) )
              => errors'[f] = Undefined
        /\ \A f \in JsFields :
              ( /\ lastEvent'.op = "input" /\ lastEvent'.arg = f
                /\ jsError[f]
                /\ jsValue'[f] # <<>>
                /\ f = "email" => JsEmailRegexTest(jsValue'[f]) )
              => ~jsError'[f]
      ]_vars

\* C6 (amended): an edit of a field that has an error to a value that is not
\* empty after trimming (for email, one that matches the pattern) clears the
\* field's error on that edit.
C6_EditClearsError ==
    [][ /\ \A f \in ReactFields :
              ( /\ lastEvent'.op = "handleChange" /\ lastEvent'.arg = f
                /\ errors[f] # Undefined
                /\ ~Blank(formData'[f])
                /\ f = "email" => ReactEmailRegexTest(formData'[f]) )
              => errors'[f] = Undefined
        /\ \A f \in JsFields :
              ( /\ lastEvent'.op = "input" /\ lastEvent'.arg = f
                /\ jsError[f]
                /\ ~Blank(jsValue'[f])
                /\ f = "email" => JsEmailRegexTest(jsValue'[f]) )
              => ~jsError'[f]
      ]_vars

C6_Witness ==
    /\ lastEvent = Event("handleChange", "email", "clearError")
    /\ formData.email = AAtBCom
    /\ errors.email = Undefined
    /\ errors.name # Undefined

---------------------------------------------------------------------------
(* personal.js: navigation and theme (personal.js:1-35, 186-207) *)

ScrollThreshold == 50

ScrollPositions == 0..MaxScrollY

Flag(b) == IF b THEN "set" ELSE "unset"

\* mutant: the boundary taken as inclusive, scrollY >= 50
ScrollListener_Inclusive(y) ==
    /\ impl = "js"
    /\ scrollY' = y
    /\ headerScrolled' = (y >= ScrollThreshold)
    /\ lastEvent' = Event("scroll", "", Flag(headerScrolled))
    /\ UNCHANGED <<impl, navLinksActive, hamburgerActive, darkMode,
                   themeIcon, storedTheme, prefersDark>>
    /\ UNCHANGED exceptJsPage

\* the window 'scroll' listener; the event's branch field keeps the flag the
\* listener found
ScrollListener(y) ==
    /\ impl = "js"
    /\ scrollY' = y
    /\ headerScrolled' = (y > ScrollThreshold)
    /\ lastEvent' = Event("scroll", "", Flag(headerScrolled))
    /\ UNCHANGED <<impl, navLinksActive, hamburgerActive, darkMode,
                   themeIcon, storedTheme, prefersDark>>
    /\ UNCHANGED exceptJsPage

\* the hamburger 'click' listener
HamburgerClick ==
    /\ impl = "js"
    /\ navLinksActive' = ~navLinksActive
    /\ hamburgerActive' = ~hamburgerActive
    /\ lastEvent' = Event("hamburgerClick", "", "")
    /\ UNCHANGED <<impl, scrollY, headerScrolled, darkMode, themeIcon,
                   storedTheme, prefersDark>>
    /\ UNCHANGED exceptJsPage

\* the 'click' listener of an a[href^="#"] link.  window.scrollTo starts a
\* smooth scroll; the positions it passes through arrive as scroll events.
AnchorClick ==
    /\ impl = "js"
    /\ navLinksActive' = FALSE
    /\ lastEvent' = Event("anchorClick", "", Flag(navLinksActive))
    /\ UNCHANGED <<impl, scrollY, headerScrolled, hamburgerActive, darkMode,
                   themeIcon, storedTheme, prefersDark>>
    /\ UNCHANGED exceptJsPage

ThemeName(dark) == IF dark THEN "dark" ELSE "light"

\* mutant: the saved value alone, the system preference never asked
InitialDark_SavedOnly(saved, systemDark) ==
    saved = "dark"

\* mutant: the system preference asked first
InitialDark_SystemFirst(saved, systemDark) ==
    systemDark \/ saved = "dark"

\* savedTheme === 'dark' || (!savedTheme && prefersDarkScheme.matches)
InitialDark(saved, systemDark) ==
    saved = "dark" \/ (saved = Absent /\ systemDark)

\* mutant: the click listener persisting the theme it found, not the new one
ThemeToggleClick_StoresOld ==
    /\ impl = "js"
    /\ darkMode' = ~darkMode
    /\ themeIcon' = IF darkMode' THEN "sun" ELSE "moon"
    /\ storedTheme' = ThemeName(darkMode)
    /\ lastEvent' = Event("themeToggle", "", ThemeName(darkMode))
    /\ UNCHANGED <<impl, scrollY, headerScrolled, navLinksActive,
                   hamburgerActive, prefersDark>>
    /\ UNCHANGED exceptJsPage

\* the themeToggle 'click' listener; the event's branch field keeps the
\* theme the listener found
ThemeToggleClick ==
    /\ impl = "js"
    /\ darkMode' = ~darkMode
    /\ themeIcon' = IF darkMode' THEN "sun" ELSE "moon"
    /\ storedTheme' = ThemeName(darkMode')
    /\ lastEvent' = Event("themeToggle", "", ThemeName(darkMode))
    /\ UNCHANGED <<impl, scrollY, headerScrolled, navLinksActive,
                   hamburgerActive, prefersDark>>
    /\ UNCHANGED exceptJsPage

\* mutant: an initialization that persists the theme it applies
PageLoad_PersistsTheme ==
    /\ impl = "js"
    /\ scrollY' = 0
    /\ headerScrolled' = FALSE
    /\ navLinksActive' = FALSE
    /\ hamburgerActive' = FALSE
    /\ darkMode' = InitialDark(storedTheme, prefersDark)
    /\ themeIcon' = IF InitialDark(storedTheme, prefersDark)
                    THEN "sun" ELSE "moon"
    /\ storedTheme' = ThemeName(darkMode')
    /\ lastEvent' = Event("load", "",
                         IF storedTheme = Absent THEN "system" ELSE "saved")
    /\ UNCHANGED <<impl, prefersDark>>
    /\ UNCHANGED exceptJsPage

\* a (re)load of the page: a fresh document, the script run from its top.
\* Only localStorage and the system preference outlive the old page.  The
\* event's branch field keeps where the theme was taken from.
PageLoad ==
    /\ impl = "js"
    /\ scrollY' = 0
    /\ headerScrolled' = FALSE
    /\ navLinksActive' = FALSE
    /\ hamburgerActive' = FALSE
    /\ darkMode' = InitialDark(storedTheme, prefersDark)
    /\ themeIcon' = IF InitialDark(storedTheme, prefersDark)
                    THEN "sun" ELSE "moon"
    /\ lastEvent' = Event("load", "",
                         IF storedTheme = Absent THEN "system" ELSE "saved")
    /\ UNCHANGED <<impl, storedTheme, prefersDark>>
    /\ UNCHANGED exceptJsPage

\* the user or the system changes the color-scheme preference; the script
\* has no listener for it
SystemPreferenceChange ==
    /\ impl = "js"
    /\ prefersDark' = ~prefersDark
    /\ lastEvent' = Event("preferenceChange", "", "")
    /\ UNCHANGED <<impl, scrollY, headerScrolled, navLinksActive,
                   hamburgerActive, darkMode, themeIcon, storedTheme>>
    /\ UNCHANGED exceptJsPage

(* React Header (Header.tsx) *)

\* handleScroll
handleScroll(y) ==
    /\ impl = "react"
    /\ headerListening
    /\ scrollY' = y
    /\ isScrolled' = (y > ScrollThreshold)
    /\ lastEvent' = Event("handleScroll", "", Flag(isScrolled))
    /\ UNCHANGED <<impl, isMobileMenuOpen>>
    /\ UNCHANGED exceptHeader

\* toggleMobileMenu
toggleMobileMenu ==
    /\ impl = "react"
    /\ mounted["Header"]
    /\ isMobileMenuOpen' = ~isMobileMenuOpen
    /\ lastEvent' = Event("toggleMobileMenu", "", "")
    /\ UNCHANGED <<impl, scrollY, isScrolled>>
    /\ UNCHANGED exceptHeader

\* a click on one of the nav-links: the Link elements carry no onClick, so
\* the click goes to the hash and no state of the Header is set.  The
\* event's branch field keeps whether the menu was open.
HeaderLinkClick ==
    /\ impl = "react"
    /\ mounted["Header"]
    /\ lastEvent' = Event("linkClick", "", Flag(isMobileMenuOpen))
    /\ UNCHANGED <<impl, scrollY, isScrolled, isMobileMenuOpen>>
    /\ UNCHANGED exceptHeader

\* Header is unmounted; the cleanup of its effect:
\* window.removeEventListener('scroll', handleScroll)
HeaderUnmount ==
    /\ impl = "react"
    /\ mounted["Header"]
    /\ mounted' = [mounted EXCEPT !["Header"] = FALSE]
    /\ headerListening' = FALSE
    /\ lastEvent' = Event("unmount", "Header", "")
    /\ UNCHANGED <<impl, scrollY, isScrolled, isMobileMenuOpen>>
    /\ UNCHANGED <<emailVars, contactVars, jsFormVars, jsPageVars, revealVars,
                   galleryVars, typingVars>>

\* the page as first loaded: nothing persisted yet, the theme following the
\* system preference
InitPage ==
    /\ impl \in {"react", "js"}
    /\ lastEvent = Event("load", "", "")
    /\ EmailIdle
    /\ ContactInit
    /\ JsFormInit
    /\ RevealInit
    /\ SkillsIdle
    /\ ExperienceInit
    /\ scrollY = 0
    /\ headerScrolled = FALSE
    /\ navLinksActive = FALSE
    /\ hamburgerActive = FALSE
    /\ storedTheme = Absent
    /\ prefersDark \in (IF impl = "js" THEN BOOLEAN ELSE {FALSE})
    /\ darkMode = InitialDark(storedTheme, prefersDark)
    /\ themeIcon = (IF darkMode THEN "sun" ELSE "moon")
    /\ isScrolled = FALSE
    /\ isMobileMenuOpen = FALSE
    /\ GalleryInit
    /\ TypingIdle
    /\ LifeInit

NextPage ==
    \/ \E y \in ScrollPositions : ScrollListener(y)
    \/ HamburgerClick
    \/ AnchorClick
    \/ ThemeToggleClick
    \/ PageLoad
    \/ SystemPreferenceChange
    \/ \E y \in ScrollPositions : handleScroll(y)
    \/ toggleMobileMenu
    \/ HeaderLinkClick
    \/ HeaderUnmount

SpecPage == InitPage /\ [][NextPage]_vars

---------------------------------------------------------------------------
(* Properties of the theme and the navigation *)

\* C7: after every toggle the persisted value names the displayed theme,
\* and the second of two toggles in a row displays the theme the first one
\* found.
C7_ToggleTwiceAndPersist ==
    [][ lastEvent'.op = "themeToggle"
           => /\ storedTheme' = (IF darkMode' THEN "dark" ELSE "light")
              /\ lastEvent.op = "themeToggle"
                    => darkMode' = (lastEvent.branch = "dark")
      ]_vars

C7_Witness ==
    /\ lastEvent = Event("themeToggle", "", "dark")
    /\ ~darkMode
    /\ storedTheme = "light"
    /\ prefersDark

\* C8: a persisted theme is never removed, and every page load that finds
\* one applies it, whatever the system preference is at that load.
C8_PersistedThemeWins ==
    [][ /\ storedTheme # Absent => storedTheme' # Absent
        /\ (lastEvent'.op = "load" /\ storedTheme # Absent)
              => /\ storedTheme' = storedTheme
                 /\ darkMode' = (storedTheme = "dark")
      ]_vars

C8_Witness ==
    /\ lastEvent.op = "load"
    /\ storedTheme = "light"
    /\ prefersDark
    /\ ~darkMode

\* C9: after every scroll event the scrolled flag is (scroll position > 50):
\* false at 0 and at 50, true at 51, and set again on each event.
C9_ScrolledIffPast50 ==
    /\ lastEvent.op = "scroll"
          => /\ headerScrolled = (scrollY > 50)
             /\ scrollY \in {0, 50} => ~headerScrolled
             /\ scrollY = 51 => headerScrolled
    /\ lastEvent.op = "handleScroll"
          => /\ isScrolled = (scrollY > 50)
             /\ scrollY \in {0, 50} => ~isScrolled
             /\ scrollY = 51 => isScrolled

C9_Witness ==
    /\ lastEvent = Event("scroll", "", "set")
    /\ scrollY = 50
    /\ ~headerScrolled

---------------------------------------------------------------------------
(* Reveal observers (personal.js:58-73, 282-295; Experience) *)

\* the batches of entries an observer callback can be handed for the targets
\* in T: some of the targets, each intersecting or not
EntryBatches(T) ==
    UNION {[S -> BOOLEAN] : S \in (SUBSET T) \ {{}}}

EntrySet(batch) == {<<e, batch[e]>> : e \in DOMAIN batch}

\* the timelineObserver callback, handed the entries in batch
TimelineObserverCallback(batch) ==
    /\ impl = "js"
    /\ \A e \in DOMAIN batch : timelineObserved[e]
    /\ timelineVisible' = [e \in TimelineItems |->
            timelineVisible[e] \/ (e \in DOMAIN batch /\ batch[e])]
    /\ timelineObserved' = [e \in TimelineItems |->
            timelineObserved[e] /\ ~(e \in DOMAIN batch /\ batch[e])]
    /\ lastEntries' = EntrySet(batch)
    /\ lastEvent' = Event("timelineObserver", "", "")
    /\ UNCHANGED <<impl, sectionRevealed, sectionObserved, expVisible,
                   expObserving>>
    /\ UNCHANGED skillsVars
    /\ UNCHANGED exceptReveal

\* the sectionObserver callback, handed the entries in batch
SectionObserverCallback(batch) ==
    /\ impl = "js"
    /\ \A e \in DOMAIN batch : sectionObserved[e]
    /\ sectionRevealed' = [e \in Sections |->
            sectionRevealed[e] \/ (e \in DOMAIN batch /\ batch[e])]
    /\ sectionObserved' = [e \in Sections |->
            sectionObserved[e] /\ ~(e \in DOMAIN batch /\ batch[e])]
    /\ lastEntries' = EntrySet(batch)
    /\ lastEvent' = Event("sectionObserver", "", "")
    /\ UNCHANGED <<impl, timelineVisible, timelineObserved, expVisible,
                   expObserving>>
    /\ UNCHANGED skillsVars
    /\ UNCHANGED exceptReveal

\* mutant: the class following the entry, classList.toggle('visible',
\* entry.isIntersecting)
ExperienceObserverCallback_Toggle(batch) ==
    /\ impl = "react"
    /\ expObserving
    /\ expVisible' = [e \in ExperienceItems |->
            IF e \in DOMAIN batch THEN batch[e] ELSE expVisible[e]]
    /\ lastEntries' = EntrySet(batch)
    /\ lastEvent' = Event("experienceObserver", "", "")
    /\ UNCHANGED <<impl, timelineVisible, timelineObserved, sectionRevealed,
                   sectionObserved, expObserving>>
    /\ UNCHANGED skillsVars
    /\ UNCHANGED exceptReveal

\* the callback of the Experience component's observer, which keeps
\* observing every item until the component is torn down
ExperienceObserverCallback(batch) ==
    /\ impl = "react"
    /\ expObserving
    /\ expVisible' = [e \in ExperienceItems |->
            expVisible[e] \/ (e \in DOMAIN batch /\ batch[e])]
    /\ lastEntries' = EntrySet(batch)
    /\ lastEvent' = Event("experienceObserver", "", "")
    /\ UNCHANGED <<impl, timelineVisible, timelineObserved, sectionRevealed,
                   sectionObserved, expObserving>>
    /\ UNCHANGED skillsVars
    /\ UNCHANGED exceptReveal

\* Experience is unmounted; the cleanup of its effect:
\* observer.disconnect()
ExperienceCleanup ==
    /\ impl = "react"
    /\ mounted["Experience"]
    /\ mounted' = [mounted EXCEPT !["Experience"] = FALSE]
    /\ expObserving' = FALSE
    /\ lastEvent' = Event("experienceCleanup", "", "")
    /\ UNCHANGED <<impl, timelineVisible, timelineObserved, sectionRevealed,
                   sectionObserved, expVisible, lastEntries>>
    /\ UNCHANGED skillsVars
    /\ UNCHANGED <<emailVars, contactVars, jsFormVars, pageVars, galleryVars,
                   typingVars, headerListening>>

revealOnly == <<timelineVisible, timelineObserved, sectionRevealed,
                sectionObserved, expVisible, expObserving>>

\* mutant: a bar going back to 0% when the container leaves the viewport
SkillsObserverCallback_Reset(batch) ==
    /\ impl = "react"
    /\ skillsObserving
    /\ barWidth' = [s \in Skills |-> IF batch[1] THEN SkillLevels[s] ELSE 0]
    /\ lastEntries' = EntrySet(batch)
    /\ lastEvent' = Event("skillsObserver", "", Flag(batch[1]))
    /\ UNCHANGED <<impl, skillsObserving, expandedSkill, skillWidth,
                   skillTarget, skillObserved>>
    /\ UNCHANGED revealOnly
    /\ UNCHANGED exceptReveal

\* the callback of the Skills component's observer, which observes the
\* skills container until the component is torn down
SkillsObserverCallback(batch) ==
    /\ impl = "react"
    /\ skillsObserving
    /\ barWidth' = [s \in Skills |->
            IF batch[1] THEN SkillLevels[s] ELSE barWidth[s]]
    /\ lastEntries' = EntrySet(batch)
    /\ lastEvent' = Event("skillsObserver", "", Flag(batch[1]))
    /\ UNCHANGED <<impl, skillsObserving, expandedSkill, skillWidth,
                   skillTarget, skillObserved>>
    /\ UNCHANGED revealOnly
    /\ UNCHANGED exceptReveal

\* a click on skill card s; the render that follows hands the bars the same
\* style prop as before, so their widths are left as the observer set them
SkillCardClick(s) ==
    /\ impl = "react"
    /\ mounted["Skills"]
    /\ expandedSkill' = (IF expandedSkill = s THEN NoSkill ELSE s)
    /\ lastEvent' = Event("skillCardClick", "", "")
    /\ UNCHANGED <<impl, barWidth, skillsObserving, skillWidth, skillTarget,
                   skillObserved, lastEntries>>
    /\ UNCHANGED revealOnly
    /\ UNCHANGED exceptReveal

\* Skills is unmounted; the cleanup of its effect: observer.disconnect()
SkillsCleanup ==
    /\ impl = "react"
    /\ mounted["Skills"]
    /\ mounted' = [mounted EXCEPT !["Skills"] = FALSE]
    /\ skillsObserving' = FALSE
    /\ lastEvent' = Event("skillsCleanup", "", "")
    /\ UNCHANGED <<impl, barWidth, expandedSkill, skillWidth, skillTarget,
                   skillObserved, lastEntries>>
    /\ UNCHANGED revealOnly
    /\ UNCHANGED <<emailVars, contactVars, jsFormVars, pageVars, galleryVars,
                   typingVars, headerListening>>

\* the skillObserver callback, handed the entry of #skills
skillObserverCallback(batch) ==
    /\ impl = "js"
    /\ skillObserved
    /\ skillWidth' = [b \in SkillBars |->
            IF batch[1] THEN skillTarget[b] ELSE skillWidth[b]]
    /\ skillObserved' = ~batch[1]
    /\ lastEntries' = EntrySet(batch)
    /\ lastEvent' = Event("skillObserver", "", Flag(batch[1]))
    /\ UNCHANGED <<impl, barWidth, skillsObserving, expandedSkill,
                   skillTarget>>
    /\ UNCHANGED revealOnly
    /\ UNCHANGED exceptReveal

InitReveal ==
    /\ impl \in {"react", "js"}
    /\ lastEvent = Event("load", "", "")
    /\ EmailIdle
    /\ ContactInit
    /\ JsFormInit
    /\ PageIdle
    /\ RevealInit
    /\ SkillsInit
    /\ ExperienceInit
    /\ GalleryInit
    /\ TypingIdle
    /\ LifeInit

NextReveal ==
    \/ \E batch \in EntryBatches(TimelineItems) :
            TimelineObserverCallback(batch)
    \/ \E batch \in EntryBatches(Sections) : SectionObserverCallback(batch)
    \/ \E batch \in EntryBatches(ExperienceItems) :
            ExperienceObserverCallback(batch)
    \/ ExperienceCleanup
    \/ \E batch \in EntryBatches(SkillsContainer) :
            SkillsObserverCallback(batch)
    \/ \E s \in Skills : SkillCardClick(s)
    \/ SkillsCleanup
    \/ \E batch \in EntryBatches(SkillsContainer) :
            skillObserverCallback(batch)

SpecReveal == InitReveal /\ [][NextReveal]_vars

\* C10: an element that is marked visible stays marked in every later state,
\* whatever entries the observers are handed afterwards.
C10_VisibleIsOneWay ==
    [][ /\ \A e \in TimelineItems : timelineVisible[e] => timelineVisible'[e]
        /\ \A e \in Sections : sectionRevealed[e] => sectionRevealed'[e]
        /\ \A e \in ExperienceItems : expVisible[e] => expVisible'[e]
      ]_vars

C10_Witness ==
    /\ lastEvent.op = "experienceObserver"
    /\ \E e \in ExperienceItems : expVisible[e] /\ <<e, FALSE>> \in lastEntries

\* C19: after a page load that finds no persisted preference the dark marker
\* is present exactly when the system prefers dark; after one that finds a
\* persisted preference it is present exactly when that value is "dark".
C19_LoadAppliesTheme ==
    (impl = "js" /\ lastEvent.op = "load")
        => /\ storedTheme = Absent => darkMode = prefersDark
           /\ storedTheme # Absent => darkMode = (storedTheme = "dark")
           /\ themeIcon = (IF darkMode THEN "sun" ELSE "moon")

C19_Witness ==
    /\ lastEvent = Event("load", "", "system")
    /\ storedTheme = Absent
    /\ prefersDark
    /\ darkMode

\* C12: every click on the menu icon flips the menu's open state, and after
\* a click on a navigation link the menu is closed.
C12_MenuToggleAndLinkCloses ==
    [][ /\ lastEvent'.op = "hamburgerClick"
              => navLinksActive' = ~navLinksActive
        /\ lastEvent'.op = "anchorClick" => ~navLinksActive'
        /\ lastEvent'.op = "toggleMobileMenu"
              => isMobileMenuOpen' = ~isMobileMenuOpen
        /\ lastEvent'.op = "linkClick" => ~isMobileMenuOpen'
      ]_vars

---------------------------------------------------------------------------
(* Properties of the validation *)

\* the rule of the form for one field: required, and for email the pattern
\* of the implementation at hand
InvalidValue(f, v) ==
    \/ Blank(v)
    \/ f = "email" /\ impl = "react" /\ ~ReactEmailRegexTest(v)
    \/ f = "email" /\ impl = "js" /\ ~JsEmailRegexTest(v)

\* C17 as stated: after an input event on a field, the field's error is
\* shown exactly when its new value is invalid.
C17_Original ==
    [][ /\ \A f \in ReactFields :
              (lastEvent'.op = "handleChange" /\ lastEvent'.arg = f)
              => ((errors'[f] # Undefined) = InvalidValue(f, formData'[f]))
        /\ \A f \in JsFields :
              (lastEvent'.op = "input" /\ lastEvent'.arg = f)
              => (jsError'[f] = InvalidValue(f, jsValue'[f]))
      ]_vars

\* C17 (amended): in personal.js, after an input event on a field the
\* field's error is shown exactly when its new value is invalid, so an error
\* is cleared only by the edit that makes the field valid.  In the React
\* Contact component an input event validates nothing: it leaves the edited
\* field without an error whatever the new value, and the other fields'
\* errors as they were.
C17_PerFieldValidation ==
    [][ /\ \A f \in JsFields :
              (lastEvent'.op = "input" /\ lastEvent'.arg = f)
              => /\ jsError'[f] = InvalidValue(f, jsValue'[f])
                 /\ \A g \in JsFields \ {f} : jsError'[g] = jsError[g]
        /\ \A f \in ReactFields :
              (lastEvent'.op = "handleChange" /\ lastEvent'.arg = f)
              => /\ errors'[f] = Undefined
                 /\ \A g \in ReactFields \ {f} : errors'[g] = errors[g]
      ]_vars

C17_Witness ==
    /\ lastEvent = Event("input", "email", "addError")
    /\ jsValue.email = AAtB
    /\ jsError.email
    /\ ~jsError.name

\* C18: after a submit event the fields that carry an error are exactly the
\* fields that are invalid at that moment, and a submission is started if
\* and only if there is none.
C18_SubmitValidatesAll ==
    [][ /\ lastEvent'.op = "handleSubmit"
           => /\ \A f \in ReactFields :
                    (errors'[f] # Undefined) = InvalidValue(f, formData[f])
              /\ IF \E f \in ReactFields : InvalidValue(f, formData[f])
                 THEN submissions' = submissions /\ ~isSubmitting'
                 ELSE submissions' = submissions + 1 /\ isSubmitting'
        /\ lastEvent'.op = "submit"
           => /\ \A f \in JsFields :
                    jsError'[f] = InvalidValue(f, jsValue[f])
              /\ IF \E f \in JsFields : InvalidValue(f, jsValue[f])
                 THEN jsTimer' = "none" /\ ~btnDisabled'
                 ELSE jsTimer' = "submit" /\ btnDisabled'
      ]_vars

C18_Witness ==
    /\ lastEvent = Event("handleSubmit", "", "invalid")
    /\ formData.name = NameA
    /\ errors.name = Undefined
    /\ errors.email = "Email is invalid"
    /\ errors.message = "Message is required"
    /\ ~isSubmitting

---------------------------------------------------------------------------
(* Project gallery (Projects.tsx; personal.js:228-280) *)

\* handleProjectClick: a click on the card of project p
handleProjectClick(p) ==
    /\ impl = "react"
    /\ selectedProject' = p
    /\ isModalOpen' = TRUE
    /\ lastEvent' = Event("handleProjectClick", p, Flag(isModalOpen))
    /\ UNCHANGED <<impl, jsModals, clickedCards>>
    /\ UNCHANGED exceptGallery

\* closeModal: a click on the backdrop or on the close control of the modal,
\* which is rendered only while isModalOpen && selectedProject
closeModal ==
    /\ impl = "react"
    /\ isModalOpen /\ selectedProject # Null
    /\ isModalOpen' = FALSE
    /\ selectedProject' = Null
    /\ lastEvent' = Event("closeModal", "", "")
    /\ UNCHANGED <<impl, jsModals, clickedCards>>
    /\ UNCHANGED exceptGallery

\* the modals the Projects component renders
ReactOpenModals ==
    IF isModalOpen /\ selectedProject # Null THEN 1 ELSE 0

\* the 'click' listener of project card c: a new .project-modal element is
\* made and appended to body on every click
CardClick(c) ==
    /\ impl = "js"
    /\ Len(jsModals) < MaxModals
    /\ clickedCards' = clickedCards \cup {c}
    /\ jsModals' = Append(jsModals, c)
    /\ lastEvent' = Event("cardClick", "", Flag(jsModals # <<>>))
    /\ UNCHANGED <<impl, selectedProject, isModalOpen>>
    /\ UNCHANGED exceptGallery

\* the 300 ms timer of a card click
CardClickTimeout(c) ==
    /\ impl = "js"
    /\ c \in clickedCards
    /\ clickedCards' = clickedCards \ {c}
    /\ lastEvent' = Event("cardClickTimeout", "", "")
    /\ UNCHANGED <<impl, selectedProject, isModalOpen, jsModals>>
    /\ UNCHANGED exceptGallery

\* a click on the close button or on the backdrop of the i-th modal:
\* modal.remove()
ModalRemove(i) ==
    /\ impl = "js"
    /\ i \in 1..Len(jsModals)
    /\ jsModals' = SubSeq(jsModals, 1, i - 1)
                        \o SubSeq(jsModals, i + 1, Len(jsModals))
    /\ lastEvent' = Event("modalRemove", "", "")
    /\ UNCHANGED <<impl, selectedProject, isModalOpen, clickedCards>>
    /\ UNCHANGED exceptGallery

InitGallery ==
    /\ impl \in {"react", "js"}
    /\ lastEvent = Event("load", "", "")
    /\ EmailIdle
    /\ ContactInit
    /\ JsFormInit
    /\ PageIdle
    /\ RevealInit
    /\ SkillsIdle
    /\ ExperienceInit
    /\ GalleryInit
    /\ TypingIdle
    /\ LifeInit

NextGallery ==
    \/ \E p \in ProjectTitles : handleProjectClick(p)
    \/ closeModal
    \/ \E c \in ProjectCards : CardClick(c)
    \/ \E c \in ProjectCards : CardClickTimeout(c)
    \/ \E i \in 1..MaxModals : ModalRemove(i)

SpecGallery == InitGallery /\ [][NextGallery]_vars

\* C11: at most one project modal is open at any time, and a click on a
\* card while a modal is open leaves one modal, bound to the clicked
\* project.
C11_OneModal ==
    [][ /\ ReactOpenModals' <= 1
        /\ Len(jsModals') <= 1
        /\ lastEvent'.op = "handleProjectClick"
              => (ReactOpenModals' = 1 /\ selectedProject' = lastEvent'.arg)
        /\ lastEvent'.op = "cardClick" => Len(jsModals') = 1
      ]_vars

\* C15: once an observed element has been marked, its observation has
\* stopped, and no observer callback marks an element that is already
\* marked.
C15_OneShotObservation ==
    [][ /\ \A e \in TimelineItems :
              timelineVisible'[e] => ~timelineObserved'[e]
        /\ \A e \in Sections : sectionRevealed'[e] => ~sectionObserved'[e]
        /\ (\E b \in SkillBars : skillWidth'[b] # 0) => ~skillObserved'
        /\ lastEvent'.op = "experienceObserver"
              => \A e \in ExperienceItems :
                    <<e, TRUE>> \in lastEntries' => ~expVisible[e]
        /\ lastEvent'.op = "skillsObserver"
              => (<<1, TRUE>> \in lastEntries'
                    => \A s \in Skills : barWidth[s] = 0)
      ]_vars

\* C20: every skill bar is at 0% at first; a callback that reports the
\* skills container as intersecting sets all bars to their own targets in
\* that step; no other step changes a bar, and a bar that has left 0% is at
\* its target from then on.
C20_SkillBars ==
    /\ \A s \in Skills : barWidth[s] = 0
    /\ \A b \in SkillBars : skillWidth[b] = 0
    /\ [][ /\ (lastEvent'.op = "skillsObserver" /\ <<1, TRUE>> \in lastEntries')
                 => \A s \in Skills : barWidth'[s] = SkillLevels[s]
           /\ (lastEvent'.op = "skillObserver" /\ <<1, TRUE>> \in lastEntries')
                 => \A b \in SkillBars : skillWidth'[b] = skillTarget[b]
           /\ ~(lastEvent'.op \in {"skillsObserver", "skillObserver"}
                   /\ <<1, TRUE>> \in lastEntries')
                 => (barWidth' = barWidth /\ skillWidth' = skillWidth)
           /\ \A s \in Skills :
                 barWidth[s] # 0 => barWidth'[s] = SkillLevels[s]
           /\ \A b \in SkillBars :
                 skillWidth[b] # 0 => skillWidth'[b] = skillTarget[b]
           /\ skillTarget' = skillTarget
         ]_vars

C20_Witness ==
    /\ lastEvent = Event("skillsObserver", "", "unset")
    /\ \A s \in Skills : barWidth[s] = SkillLevels[s]

---------------------------------------------------------------------------
(* Typing effect (Hero.tsx:5-19; personal.js:209-226) *)

\* the effect of Hero, run after a render with currentIndex = n: a timeout
\* is pending exactly when n is short of the text's length
HeroEffect(n) == n < Len(FullText)

\* mutant: the effect stopping one character early,
\* currentIndex < fullText.length - 1
HeroTimeout_StopsEarly ==
    /\ impl = "react"
    /\ heroTimer
    /\ text' = Append(text, FullText[currentIndex + 1])
    /\ currentIndex' = currentIndex + 1
    /\ heroTimer' = (currentIndex' < Len(FullText) - 1)
    /\ lastEvent' = Event("heroTimeout", "", "")
    /\ UNCHANGED <<impl, originalText, innerHTML, typeI, typeTimer>>
    /\ UNCHANGED exceptTyping

\* the 100 ms timeout of the Hero effect fires: both state updates, the
\* render, the cleanup of the old effect and the run of the new one
HeroTimeout ==
    /\ impl = "react"
    /\ heroTimer
    /\ text' = Append(text, FullText[currentIndex + 1])
    /\ currentIndex' = currentIndex + 1
    /\ heroTimer' = HeroEffect(currentIndex')
    /\ lastEvent' = Event("heroTimeout", "", "")
    /\ UNCHANGED <<impl, originalText, innerHTML, typeI, typeTimer>>
    /\ UNCHANGED exceptTyping

\* Hero is unmounted: the cleanup of the effect clears the pending timeout
HeroUnmount ==
    /\ impl = "react"
    /\ mounted["Hero"]
    /\ mounted' = [mounted EXCEPT !["Hero"] = FALSE]
    /\ heroTimer' = FALSE
    /\ lastEvent' = Event("unmount", "Hero", "")
    /\ UNCHANGED <<impl, text, currentIndex, originalText, innerHTML, typeI,
                   typeTimer, headerListening>>
    /\ UNCHANGED <<emailVars, contactVars, jsFormVars, pageVars, revealVars,
                   galleryVars>>

\* mutant: two characters a tick
typeWriter_TwoATick ==
    /\ impl = "js"
    /\ typeTimer
    /\ IF typeI < Len(originalText)
         THEN /\ innerHTML' = Append(innerHTML, originalText[typeI + 1])
              /\ typeI' = typeI + 2
              /\ typeTimer' = TRUE
         ELSE /\ innerHTML' = Append(innerHTML, CursorSpan)
              /\ typeTimer' = FALSE
              /\ typeI' = typeI
    /\ lastEvent' = Event("typeWriter", "",
                          IF typeI < Len(originalText) THEN "type" ELSE "cursor")
    /\ UNCHANGED <<impl, text, currentIndex, heroTimer, originalText>>
    /\ UNCHANGED exceptTyping

\* a typeWriter timeout fires (the 500 ms one first, then the 50 ms ones)
typeWriter ==
    /\ impl = "js"
    /\ typeTimer
    /\ IF typeI < Len(originalText)
         THEN /\ innerHTML' = Append(innerHTML, originalText[typeI + 1])
              /\ typeI' = typeI + 1
              /\ typeTimer' = TRUE
         ELSE /\ innerHTML' = Append(innerHTML, CursorSpan)
              /\ typeTimer' = FALSE
              /\ typeI' = typeI
    /\ lastEvent' = Event("typeWriter", "",
                          IF typeI < Len(originalText) THEN "type" ELSE "cursor")
    /\ UNCHANGED <<impl, text, currentIndex, heroTimer, originalText>>
    /\ UNCHANGED exceptTyping

InitTyping ==
    /\ impl \in {"react", "js"}
    /\ lastEvent = Event("load", "", "")
    /\ EmailIdle
    /\ ContactInit
    /\ JsFormInit
    /\ PageIdle
    /\ RevealInit
    /\ SkillsIdle
    /\ ExperienceInit
    /\ GalleryInit
    /\ TypingInit
    /\ LifeInit

NextTyping ==
    \/ HeroTimeout
    \/ HeroUnmount
    \/ typeWriter

SpecTyping == InitTyping /\ [][NextTyping]_vars

\* the typing effect with no teardown and every pending timeout firing
NextTypingRunning ==
    \/ HeroTimeout
    \/ typeWriter

SpecTypingFair ==
    /\ InitTyping
    /\ [][NextTypingRunning]_vars
    /\ WF_vars(HeroTimeout)
    /\ WF_vars(typeWriter)

\* the characters revealed so far and the length of the source string
revealedCount == IF impl = "react" THEN currentIndex ELSE typeI
SourceLength == IF impl = "react" THEN Len(FullText) ELSE Len(originalText)
\* the cursor elements in the heading: Hero renders one after the text in
\* every render, typeWriter appends them to innerHTML
CursorMarkers ==
    IF impl = "react" THEN 1
    ELSE Cardinality({k \in 1..Len(innerHTML) : innerHTML[k] = CursorSpan})
TimerPending == IF impl = "react" THEN heroTimer ELSE typeTimer

\* C13: revealedCount stays between 0 and the length of the source string,
\* the text shown is the first revealedCount characters of it, and a timer
\* tick that changes revealedCount adds exactly 1.
C13_TypingInvariant ==
    [][ /\ revealedCount \in 0..SourceLength
        /\ revealedCount' \in 0..SourceLength
        /\ text' = SubSeq(FullText, 1, currentIndex')
        /\ impl = "js" =>
              SubSeq(innerHTML', 1, typeI') = SubSeq(originalText, 1, typeI')
        /\ revealedCount' # revealedCount
              => revealedCount' = revealedCount + 1
      ]_vars

C13_Witness ==
    /\ lastEvent.op = "typeWriter"
    /\ originalText # <<>>
    /\ typeI = Len(originalText)

\* the effect has stopped with the whole text and one cursor shown
TypingDone ==
    /\ revealedCount = SourceLength
    /\ CursorMarkers = 1
    /\ ~TimerPending

\* C14 as stated: the effect ends in TypingDone, and the cursor marker is
\* there only once revealedCount has reached the length of the source.
C14_Original ==
    /\ <>[]TypingDone
    /\ [](CursorMarkers = 1 => revealedCount = SourceLength)

\* C14: with every pending timeout firing and no teardown the effect ends,
\* for good, with the whole text shown, one cursor marker and no timeout
\* pending; no timeout stops pending before that; personal.js has no cursor
\* marker while a timeout is pending and appends one in the tick that
\* schedules no other, Hero shows its one cursor marker throughout.
C14_TypingTerminates ==
    /\ <>[]TypingDone
    /\ [](~TimerPending => TypingDone)
    /\ [](impl = "js" => CursorMarkers = (IF typeTimer THEN 0 ELSE 1))
    /\ [](impl = "react" => CursorMarkers = 1)

C14_Witness ==
    /\ lastEvent = Event("typeWriter", "", "cursor")
    /\ TypingDone
    /\ originalText # <<>>

---------------------------------------------------------------------------
(* Teardown *)

\* a callback component c registered can still fire
CallbackPending(c) ==
    CASE c = "Header" -> headerListening
      [] c = "Hero" -> heroTimer
      [] c = "Skills" -> skillsObserving
      [] c = "Experience" -> expObserving
      [] c = "Contact" -> submissions > 0

\* C16: a component that has been torn down has no callback left that can
\* fire: no scroll listener, no typing timeout, no connected observer, no
\* awaited submission.
C16_TeardownReleasesCallbacks ==
    \A c \in Components : ~mounted[c] => ~CallbackPending(c)

---------------------------------------------------------------------------
(* Further properties of the contact form *)

\* C21: in the Contact component isSubmitting is true exactly while a
\* submission is awaited, whichever way the last one ended, and no more than
\* one submission is awaited at a time.
C21_OneSubmissionInFlight ==
    impl = "react"
        => /\ isSubmitting <=> submissions > 0
           /\ submissions <= 1

C21_Witness ==
    /\ lastEvent.op = "handleChange"
    /\ isSubmitting
    /\ submissions = 1
    /\ submitStatus = Null

\* C22: a submit of the Contact form that fails validation leaves the field
\* values, isSubmitting, the awaited submissions and the outcome shown as
\* they were; only the error map is written.
C22_BlockedSubmitFrame ==
    [][ lastEvent' = Event("handleSubmit", "", "invalid")
          => /\ formData' = formData
             /\ isSubmitting' = isSubmitting
             /\ submitStatus' = submitStatus
             /\ submissions' = submissions
             /\ errors' = validateForm(formData)
      ]_vars

C22_Witness ==
    /\ lastEvent = Event("handleSubmit", "", "invalid")
    /\ submitStatus = "success"
    /\ errors # NoErrors

\* a string with no whitespace and exactly one "@"
OneAtNoSpace(s) ==
    /\ \A k \in 1..Len(s) : NonSpace(s[k])
    /\ Cardinality({k \in 1..Len(s) : s[k] = "@"}) = 1

\* C23 as stated: the two email validators give the same verdict on every
\* string.
C23_Original ==
    (reactVerdict # "unchecked" /\ jsVerdict # "unchecked")
        => reactVerdict = jsVerdict

\* C23: every string the personal.js validator accepts the Contact validator
\* accepts too, and the two give the same verdict on every string that has no
\* whitespace and exactly one "@".
C23_JsRuleIsStricter ==
    (reactVerdict # "unchecked" /\ jsVerdict # "unchecked")
        => /\ jsVerdict = "valid" => reactVerdict = "valid"
           /\ OneAtNoSpace(emailIn) => reactVerdict = jsVerdict

C23_Witness ==
    /\ emailIn = <<"@", "@", "a", ".", "a">>
    /\ reactVerdict = "valid"
    /\ jsVerdict = "invalid"

---------------------------------------------------------------------------
(* Further properties of the navigation and the theme *)

\* C24: in personal.js the hamburger lines carry 'active' exactly when
\* nav-links does.
C24_IconMatchesMenu ==
    impl = "js" => hamburgerActive = navLinksActive

\* C25: nothing is persisted at first; a page load leaves the persisted
\* preference as it is, only the theme toggle writes it; a load that finds
\* none leaves none and shows the theme the system prefers at that load.
C25_InitNeverPersists ==
    /\ storedTheme = Absent
    /\ [][ /\ storedTheme' # storedTheme => lastEvent'.op = "themeToggle"
           /\ lastEvent'.op = "load" => storedTheme' = storedTheme
           /\ (lastEvent'.op = "load" /\ storedTheme = Absent)
                 => /\ storedTheme' = Absent
                    /\ darkMode' = prefersDark'
         ]_vars

C25_Witness ==
    /\ lastEvent = Event("load", "", "system")
    /\ storedTheme = Absent
    /\ ~prefersDark
    /\ ~darkMode

=============================================================================
